---------------------------- MODULE Spec2Model ----------------------------
(***************************************************************************)
(* Model of the research-agent-system task pipeline:                       *)
(*   src/api/routes.py                 the Task Registry (active_tasks),   *)
(*                                     submit, poll and the background     *)
(*                                     routine execute_research_task       *)
(*   src/agents/coordinator_agent.py   CoordinatorAgent.coordinate_task    *)
(*   src/memory/session_manager.py     Session and SessionManager          *)
(*                                                                         *)
(* Scheduling.  Everything runs on one asyncio event loop.  A routine      *)
(* gives up the loop only where an awaited call really suspends.  The      *)
(* three stage calls suspend (the stages sleep and do I/O); the awaited    *)
(* create_session and update_state contain no await of their own, so they  *)
(* run to completion without yielding.  One action of this model is        *)
(* therefore one maximal run of code between two suspension points, and    *)
(* the writes made inside one action are kept, in order, in the logs       *)
(* reg_writes and coord_writes.                                            *)
(*                                                                         *)
(* Dictionaries are functions whose DOMAIN is the set of keys present.     *)
(***************************************************************************)
EXTENDS Integers, Sequences, FiniteSets, TLC

\* Number of task ids uuid4 can hand out in a run of the model.
MaxTasks == 2

TaskIds == 1..MaxTasks

\* Python's None.
None == [tag |-> "None"]

\* datetime.now().isoformat(): the instant itself is not modelled.
Now == "ts"

Statuses == {"pending", "in_progress", "completed", "failed"}

\* AgentType of the three stage agents.
Agents == {"research", "writing", "analysis"}
Terminal == {"completed", "failed"}

\* d.get(k, default)
Get(d, k, default) == IF k \in DOMAIN d THEN d[k] ELSE default

\* dict.update: the keys of upd are added to d or overwritten in it.
Update(d, upd) == upd @@ d

\* str(KeyError(k)): the key in quotes.
KeyErrorText(k) == "'" \o k \o "'"

(***************************************************************************)
(* Inputs                                                                  *)
(***************************************************************************)

Topics == {"Machine Learning Applications"}
\* A depth other than the "comprehensive" the request defaults to.
Depths == {"basic"}

\* ResearchRequest: topic is supplied; the other fields have defaults.
Requests ==
  [topic : Topics, content_type : {"article"}, tone : {"professional"},
   length : {"medium"}, depth : Depths]

\* What an awaited stage call can do: return a dict or raise.
Return(v) == [kind |-> "return", value |-> v]
Raise(m) == [kind |-> "raise", msg |-> m]

ResearchContents == {"research text"}
WritingContents == {"written text"}
AnalysisReports == {[sentiment |-> "neutral"]}

\* research_agent.execute_task: the agent is a constructor argument of the
\* coordinator, so its result is any dict, or an exception.
ResearchOutcomes ==
  {Return([status |-> "completed", result |-> [content |-> c]]) :
      c \in ResearchContents}
  \cup {Return([status |-> "completed"]),
        Return([status |-> "error", reason |-> "unknown_message_type"]),
        Raise("research error")}

WritingOutcomes ==
  {Return([status |-> "completed", content |-> c]) : c \in WritingContents}
  \cup {Return([status |-> "completed"]),
        Return([status |-> "error", reason |-> "unknown_message_type"]),
        Raise("writing error")}

AnalysisOutcomes ==
  {Return([status |-> "completed", analysis_report |-> a]) :
      a \in AnalysisReports}
  \cup {Return([status |-> "partial", analysis_report |-> a]) :
      a \in AnalysisReports}
  \cup {Return([status |-> "error", reason |-> "unknown_message_type"]),
        Raise("analysis error")}

\* Whether a step of the session store completes or raises.
SessionOk == {"ok"}
SessionMayRaise == {"ok", "raise"}
SessionErrorText == "session error"

(***************************************************************************)
(* State                                                                   *)
(***************************************************************************)
VARIABLES
  active_tasks,    \* routes.active_tasks: task id -> record
  coord_tasks,     \* coordinator_agent.active_tasks: task id -> record
  sessions,        \* coordinator_agent.session_manager.sessions
  pc,              \* where the background routine of each id stands
  research_result, \* coordinate_task's local, per routine
  writing_result,  \* coordinate_task's local, per routine
  calls,           \* per id: the stage calls made so far, with arguments
  rets,            \* per id: what those calls returned or raised
  coord_out,       \* per id: how coordinate_task ended (None while running)
  reg_writes,      \* per id: every status written to active_tasks[id]
  coord_writes,    \* per id: every status written to coord_tasks[id]
  response,        \* the answer to the last HTTP request (submit or poll)
  memory,          \* per stage agent: its memory_bank.fallback_storage
  in_generate,     \* the id whose routine is inside the synchronous call
                   \* self.model.generate_content (0: none is)
  route_sessions,  \* routes.session_manager.sessions
  direct,          \* the coordinator used through its own interface
                   \* (process_message, execute_task): the coordinate_task
                   \* routines started there, the number of messages
                   \* handled, the answer to the last call
  bank             \* a MemoryBank used on its own, with its Redis server

vars == <<active_tasks, coord_tasks, sessions, pc, research_result,
          writing_result, calls, rets, coord_out, reg_writes, coord_writes,
          response, memory, in_generate, route_sessions, direct, bank>>

\* MemoryBank.__init__, and a Redis server that holds nothing; stored_keys
\* (history) are the keys store_memory was called with.
NewMemoryBank ==
  [redis_client |-> FALSE, fallback_storage |-> <<>>, redis |-> <<>>,
   stored_keys |-> {}]

Init ==
  /\ active_tasks = <<>>
  /\ coord_tasks = <<>>
  /\ sessions = <<>>
  /\ pc = [i \in TaskIds |-> "none"]
  /\ research_result = [i \in TaskIds |-> None]
  /\ writing_result = [i \in TaskIds |-> None]
  /\ calls = [i \in TaskIds |-> <<>>]
  /\ rets = [i \in TaskIds |-> <<>>]
  /\ coord_out = [i \in TaskIds |-> None]
  /\ reg_writes = [i \in TaskIds |-> <<>>]
  /\ coord_writes = [i \in TaskIds |-> <<>>]
  /\ response = None
  /\ memory = [a \in Agents |-> <<>>]
  /\ in_generate = 0
  /\ route_sessions = <<>>
  /\ direct = [routines |-> <<>>, handled |-> 0, answer |-> None]
  /\ bank = NewMemoryBank

(***************************************************************************)
(* routes.py: the registry's records                                       *)
(***************************************************************************)

\* Variant of NewTaskRecord: the record starts with the response's status.
NewTaskRecordStarted(request) ==
  [status |-> "started", request |-> request, created_at |-> Now,
   result |-> None]

\* create_research_task: the record stored for a new task.
NewTaskRecord(request) ==
  [status |-> "pending", request |-> request, created_at |-> Now,
   result |-> None]

\* create_research_task's TaskResponse.
TaskResponse(task_id, request) ==
  [endpoint |-> "research", code |-> 200, task_id |-> task_id,
   status |-> "started",
   message |-> "Research task started for topic: " \o request.topic]

\* execute_research_task: active_tasks[task_id]["status"] = "in_progress"
MarkInProgress(rec) == [rec EXCEPT !.status = "in_progress"]

\* Variant of RecordResult: the result is not stored.
RecordResultStatusOnly(rec, result) ==
  Update(rec, [status |-> Get(result, "status", "completed"),
               completed_at |-> Now])

\* execute_research_task: the update with coordinate_task's result.
RecordResult(rec, result) ==
  Update(rec, [status |-> Get(result, "status", "completed"),
               result |-> result, completed_at |-> Now])

\* Variant of RecordFailure: the failed task is queued again.
RecordFailureRequeue(rec, msg) ==
  Update(rec, [status |-> "pending", error |-> msg, completed_at |-> Now])

\* Variant of RecordFailure: the exception's text is not recorded.
RecordFailureNoError(rec, msg) ==
  Update(rec, [status |-> "failed", completed_at |-> Now])

\* execute_research_task: the update of its except branch.
RecordFailure(rec, msg) ==
  Update(rec, [status |-> "failed", error |-> msg, completed_at |-> Now])

\* Variant of GetTaskStatus: an unknown id is answered like dict.get would.
GetTaskStatusLenient(reg, task_id) ==
  [endpoint |-> "tasks", id |-> task_id, code |-> 200,
   body |-> Get(reg, task_id, None)]

\* get_task_status
GetTaskStatus(reg, task_id) ==
  IF task_id \notin DOMAIN reg
    THEN [endpoint |-> "tasks", id |-> task_id, code |-> 404,
          detail |-> "Task not found"]
    ELSE [endpoint |-> "tasks", id |-> task_id, code |-> 200,
          body |-> reg[task_id]]

\* The loop of list_tasks over the keys still to visit.  (A dict is visited
\* in insertion order; the model visits the ids in increasing order.)
RECURSIVE TasksSummary(_, _)
TasksSummary(reg, keys) ==
  IF keys = {} THEN <<>>
  ELSE LET task_id == CHOOSE k \in keys : \A other \in keys : k <= other
       IN  <<[task_id |-> task_id,
              topic |-> reg[task_id].request.topic,
              status |-> reg[task_id].status,
              created_at |-> reg[task_id].created_at,
              content_type |-> reg[task_id].request.content_type]>>
           \o TasksSummary(reg, keys \ {task_id})

\* Variant of ListTasks: only the tasks that have not ended are listed.
ListTasksRunning(reg) ==
  [endpoint |-> "list", code |-> 200,
   total_tasks |-> Cardinality(DOMAIN reg),
   tasks |-> TasksSummary(reg, {k \in DOMAIN reg :
                                  reg[k].status \notin Terminal})]

\* list_tasks
ListTasks(reg) ==
  [endpoint |-> "list", code |-> 200,
   total_tasks |-> Cardinality(DOMAIN reg),
   tasks |-> TasksSummary(reg, DOMAIN reg)]

(***************************************************************************)
(* session_manager.py                                                      *)
(***************************************************************************)

\* Session.__init__
NewSession(session_id) ==
  [session_id |-> session_id, state |-> <<>>, history |-> <<>>,
   context |-> <<>>]

\* SessionManager.create_session, called with a session id.
CreateSession(ss, session_id) == (session_id :> NewSession(session_id)) @@ ss

\* Variant of UpdateState: the history entry is not appended.
UpdateStateNoHistory(sess, key, value) ==
  [sess EXCEPT !.state = (key :> value) @@ @]

\* Session.update_state
UpdateState(sess, key, value) ==
  [sess EXCEPT
     !.state = (key :> value) @@ @,
     !.history = Append(@, [action |-> "state_update", key |-> key,
                            value |-> value])]

(***************************************************************************)
(* coordinator_agent.py: coordinate_task                                   *)
(*                                                                         *)
(* The coordinator's part of the state travels through these operators as  *)
(* a record cs = [tasks, sessions, writes, out]: out is None while the     *)
(* call is running and becomes Return(dict) or Raise(text) when it ends.   *)
(***************************************************************************)

CoordState(t, s, w) ==
  [tasks |-> t, sessions |-> s, writes |-> w, out |-> None]

\* The task_data dict the boundary hands to coordinate_task.
TaskData(task_id, request) == [task_id |-> task_id] @@ request

\* The record coordinate_task stores before the first stage.
NewCoordRecord(task_id) ==
  [status |-> "in_progress", current_step |-> "research",
   session |-> task_id]

\* coordinate_task up to the try block: create the session, store the record.
\* so: whether create_session completes or raises.
CoordinateBegin(cs, task_id, so) ==
  IF so = "raise"
    THEN [cs EXCEPT !.out = Raise(SessionErrorText)]
    ELSE [cs EXCEPT
            !.sessions = CreateSession(@, task_id),
            !.tasks = (task_id :> NewCoordRecord(task_id)) @@ @,
            !.writes[task_id] = Append(@, "in_progress")]

\* The arguments of the research call.
ResearchArgs(task_data) ==
  [task_id |-> task_data.task_id, topic |-> Get(task_data, "topic", ""),
   depth |-> "comprehensive"]

\* Variant of ResearchOk: the reported status is not looked at.
ResearchOkUnchecked(res) == TRUE

\* if research_result.get("status") != "completed"
ResearchOk(res) == Get(res, "status", "None") = "completed"

\* Variant of WritingOk: the reported status is not looked at.
WritingOkUnchecked(res) == TRUE

\* if writing_result.get("status") != "completed"
WritingOk(res) == Get(res, "status", "None") = "completed"

\* Variant of AfterResearch: the writing call is given the topic instead of
\* the research content.
AfterResearchTopic(o, task_data) ==
  IF o.kind = "raise" THEN Raise(o.msg)
  ELSE IF ~ResearchOk(o.value) THEN Raise("Research phase failed")
  ELSE IF "result" \notin DOMAIN o.value THEN Raise(KeyErrorText("result"))
  ELSE IF "content" \notin DOMAIN o.value.result
    THEN Raise(KeyErrorText("content"))
  ELSE Return([research_content |-> Get(task_data, "topic", ""),
               content_type |-> Get(task_data, "content_type", "article"),
               tone |-> Get(task_data, "tone", "professional")])

\* From the research call's outcome to the writing call: Return(the writing
\* call's arguments), or Raise(text) when the try block raises before it.
AfterResearch(o, task_data) ==
  IF o.kind = "raise" THEN Raise(o.msg)
  ELSE IF ~ResearchOk(o.value) THEN Raise("Research phase failed")
  ELSE IF "result" \notin DOMAIN o.value THEN Raise(KeyErrorText("result"))
  ELSE IF "content" \notin DOMAIN o.value.result
    THEN Raise(KeyErrorText("content"))
  ELSE Return([research_content |-> o.value.result.content,
               content_type |-> Get(task_data, "content_type", "article"),
               tone |-> Get(task_data, "tone", "professional")])

\* From the writing call's outcome to the analysis call.
AfterWriting(o) ==
  IF o.kind = "raise" THEN Raise(o.msg)
  ELSE IF ~WritingOk(o.value) THEN Raise("Writing phase failed")
  ELSE IF "content" \notin DOMAIN o.value THEN Raise(KeyErrorText("content"))
  ELSE Return([content |-> o.value.content, analysis_type |-> "quality"])

\* Variant of AfterAnalysis: final_result takes the research content.
AfterAnalysisResearchContent(o, task_id, rr, wr) ==
  IF o.kind = "raise" THEN Raise(o.msg)
  ELSE IF "analysis_report" \notin DOMAIN o.value
    THEN Raise(KeyErrorText("analysis_report"))
  ELSE Return([task_id |-> task_id, status |-> "completed",
               research |-> rr.result, content |-> rr.result.content,
               analysis |-> o.value.analysis_report,
               timeline |-> [research_completed |-> TRUE,
                             writing_completed |-> TRUE,
                             analysis_completed |-> TRUE]])

\* From the analysis call's outcome to final_result.
AfterAnalysis(o, task_id, rr, wr) ==
  IF o.kind = "raise" THEN Raise(o.msg)
  ELSE IF "analysis_report" \notin DOMAIN o.value
    THEN Raise(KeyErrorText("analysis_report"))
  ELSE Return([task_id |-> task_id, status |-> "completed",
               research |-> rr.result, content |-> wr.content,
               analysis |-> o.value.analysis_report,
               timeline |-> [research_completed |-> TRUE,
                             writing_completed |-> TRUE,
                             analysis_completed |-> TRUE]])

\* Variant of FailedOutcome: a fixed text instead of the exception's.
FailedOutcomeGeneric(task_id, msg) ==
  [task_id |-> task_id, status |-> "failed",
   error |-> "Task coordination failed"]

\* The dict the except branch returns.
FailedOutcome(task_id, msg) ==
  [task_id |-> task_id, status |-> "failed", error |-> msg]

\* Variant of CoordinateFail: every record of the coordinator is marked
\* failed, not only the task's own.
CoordinateFailAll(cs, task_id, msg, so) ==
  [cs EXCEPT
     !.tasks = [t \in DOMAIN @ |-> [@[t] EXCEPT !.status = "failed"]],
     !.writes[task_id] = Append(@, "failed"),
     !.sessions[task_id] = UpdateState(@, "failed", [error |-> msg]),
     !.out = IF so = "raise" THEN Raise(SessionErrorText)
             ELSE Return(FailedOutcome(task_id, msg))]

\* The except branch: mark the record failed, mirror it into the session,
\* return the failed outcome.  so: whether update_state completes or raises
\* (in its last statement, after the session is written).
CoordinateFail(cs, task_id, msg, so) ==
  [cs EXCEPT
     !.tasks[task_id].status = "failed",
     !.writes[task_id] = Append(@, "failed"),
     !.sessions[task_id] = UpdateState(@, "failed", [error |-> msg]),
     !.out = IF so = "raise" THEN Raise(SessionErrorText)
             ELSE Return(FailedOutcome(task_id, msg))]

\* The end of the try block: mark the record completed, mirror it into the
\* session, return final_result; an exception of update_state is caught by
\* the except branch.
CoordinateComplete(cs, task_id, final_result, soC, soF) ==
  LET done == [cs EXCEPT
                 !.tasks[task_id].status = "completed",
                 !.writes[task_id] = Append(@, "completed"),
                 !.sessions[task_id] =
                    UpdateState(@, "completed", final_result)]
  IN  IF soC = "raise"
        THEN CoordinateFail(done, task_id, SessionErrorText, soF)
        ELSE [done EXCEPT !.out = Return(final_result)]

\* How a step of the try block goes on: r is Return(x) or Raise(text).
FailOrGo(cs, task_id, r, soF) ==
  IF r.kind = "raise" THEN CoordinateFail(cs, task_id, r.msg, soF) ELSE cs

(***************************************************************************)
(* The stage agents: research_agent.py, writing_agent.py,                  *)
(* analysis_agent.py, with tools/web_search.py, tools/custom_tools.py and  *)
(* memory/memory_bank.py                                                   *)
(*                                                                         *)
(* A text is the sequence of its words (what str.split() gives), the words *)
(* taken to be separated by single blanks; lengths of texts count words.   *)
(* The prompt handed to the generation model is not modelled: what the     *)
(* model answers is an input.                                              *)
(***************************************************************************)

Min(a, b) == IF a < b THEN a ELSE b

\* What the model can answer.
GeneratedTexts == {<<"it", "is", "gonna", "be", "great", "progress.">>}

\* One use of self.model: the agent has no model (no API key), or
\* generate_content raises, or it answers with a text.
GenOutcomes ==
  {[kind |-> "absent"], [kind |-> "raise"]}
  \cup {[kind |-> "text", text |-> t] : t \in GeneratedTexts}

\* Variant of Generate: an exception of generate_content is not caught.
GenerateUncaught(g, fallback) ==
  IF g.kind = "absent" THEN Return(fallback)
  ELSE IF g.kind = "raise" THEN Raise("Gemini API error")
  ELSE Return(g.text)

\* if self.model: try: generate_content ... except: fallback; else: fallback
Generate(g, fallback) ==
  IF g.kind = "absent" THEN Return(fallback)
  ELSE IF g.kind = "raise" THEN Return(fallback)
  ELSE Return(g.text)

\* web_search.search_async: max_results simulated results.
MaxResults == 5
Urls ==
  <<"https://example.com/research-1", "https://example.com/research-2",
    "https://example.com/research-3", "https://example.com/research-4",
    "https://example.com/research-5">>
SearchAsync(query, max_results) ==
  [i \in 1..max_results |->
     [title |-> "Research Result " \o ToString(i) \o " for: " \o query,
      snippet |-> "This is a simulated search result for " \o query,
      url |-> Urls[i], display_url |-> "research.example.com"]]

\* Variant of SourcesOf: a url is listed once, where it first occurs.
SourcesOfDistinct(search_results) ==
  LET withUrl == SelectSeq(search_results, LAMBDA r : "url" \in DOMAIN r)
      first == {k \in 1..Len(withUrl) :
                  \A j \in 1..(k - 1) : withUrl[j].url # withUrl[k].url}
      RECURSIVE Pick(_)
      Pick(k) == IF k > Len(withUrl) THEN <<>>
                 ELSE IF k \in first THEN <<withUrl[k].url>> \o Pick(k + 1)
                 ELSE Pick(k + 1)
  IN  Pick(1)

\* [result["url"] for result in search_results if "url" in result]
SourcesOf(search_results) ==
  LET withUrl == SelectSeq(search_results, LAMBDA r : "url" \in DOMAIN r)
  IN  [k \in 1..Len(withUrl) |-> withUrl[k].url]

\* _generate_fallback_research
FallbackResearch(topic, search_results) ==
  <<"#", "Research", "Report:", topic, "Based", "on",
    ToString(Len(search_results)), "sources,", "Sources">>
  \o SourcesOf(search_results)

\* memory_bank.store_memory into fallback_storage; ms: the store is written,
\* or an exception is caught and logged and nothing is written.
StoreMemory(mem, key, data, metadata, ms) ==
  IF ms = "failed" THEN mem
  ELSE (("memory:" \o key) :>
          [data |-> data, metadata |-> metadata, timestamp |-> Now]) @@ mem
MemoryOutcomes == {"stored", "failed"}

\* ResearchAgent.execute_research from the search results on (key_findings
\* are left out of the result).
ExecuteResearchFrom(research_data, g, search_results) ==
  LET topic == Get(research_data, "topic", "")
      gen == Generate(g, FallbackResearch(topic, search_results))
  IN  IF gen.kind = "raise" THEN gen
      ELSE Return(
        [status |-> "completed",
         result |-> [task_id |-> Get(research_data, "task_id", ""),
                     content |-> gen.value,
                     sources |-> SourcesOf(search_results),
                     confidence_score |->
                       IF g.kind = "text" THEN "0.85" ELSE "0.70",
                     metadata |-> <<>>],
         agent |-> "research"])

\* ResearchAgent.execute_research
ExecuteResearch(research_data, g) ==
  ExecuteResearchFrom(research_data, g,
                      SearchAsync(Get(research_data, "topic", ""),
                                  MaxResults))

\* research_content[:500]; the model counts words where the code counts
\* characters.
ExcerptLen == 500
Excerpt(text) == SubSeq(text, 1, Min(ExcerptLen, Len(text)))

\* _generate_fallback_content
FallbackContent(research_content, content_type, tone) ==
  <<"#", content_type, "on", "Research", "Topic", "in", "a", tone, "tone.",
    "Key", "Insights", "from", "Research">>
  \o Excerpt(research_content) \o <<"...", "Conclusion">>

\* ContentOptimizerTool._get_optimization_rules
OptimizationRules(content_type, tone) ==
  (IF content_type = "article" THEN <<"structure_paragraphs", "add_headings">>
   ELSE IF content_type = "report"
     THEN <<"formal_language", "add_bullet_points">>
   ELSE <<>>)
  \o (IF tone = "professional" THEN <<"professional_tone">>
      ELSE IF tone = "casual" THEN <<"casual_tone">>
      ELSE <<>>)

\* content.replace(" w ", " repl ") from word k on: a word is replaced when
\* blanks surround it (it is neither the first nor the last word) and the
\* blank before it was not used up by the replacement of the word before.
RECURSIVE ReplaceFrom(_, _, _, _, _)
ReplaceFrom(text, k, w, repl, prevHit) ==
  IF k > Len(text) THEN <<>>
  ELSE LET hit == k > 1 /\ k < Len(text) /\ text[k] = w /\ ~prevHit
       IN  (IF hit THEN repl ELSE <<text[k]>>)
           \o ReplaceFrom(text, k + 1, w, repl, hit)

ReplaceWord(text, w, repl) == ReplaceFrom(text, 1, w, repl, FALSE)

\* ContentOptimizerTool._apply_optimization_rule: structure_paragraphs
\* strips blank space around paragraphs and keeps the words; the rules
\* without a branch leave the content as it is.
ApplyOptimizationRule(content, rule) ==
  IF rule = "professional_tone"
    THEN ReplaceWord(
           ReplaceWord(ReplaceWord(content, "kinda", <<"kind", "of">>),
                       "gonna", <<"going", "to">>),
           "yeah", <<"yes">>)
    ELSE content

RECURSIVE ApplyRules(_, _)
ApplyRules(content, rules) ==
  IF rules = <<>> THEN content
  ELSE ApplyRules(ApplyOptimizationRule(content, Head(rules)), Tail(rules))

\* ContentOptimizerTool.optimize_content
OptimizeContent(content, content_type, tone) ==
  ApplyRules(content, OptimizationRules(content_type, tone))

\* WritingAgent.generate_content
GenerateContent(content_data, g) ==
  LET research_content == Get(content_data, "research_content", <<>>)
      content_type == Get(content_data, "content_type", "article")
      tone == Get(content_data, "tone", "professional")
      gen == Generate(g, FallbackContent(research_content, content_type,
                                         tone))
  IN  IF gen.kind = "raise" THEN gen
      ELSE Return([status |-> "completed",
                   content |-> OptimizeContent(gen.value, content_type, tone),
                   content_type |-> content_type, agent |-> "writing"])

\* _generate_fallback_analysis
FallbackAnalysis ==
  <<"Quality", "Assessment:", "Content", "appears", "well-structured",
    "Confidence", "Score:", "0.75">>

\* The odd m below 40 whose double m / 40 lies above the fraction m/40:
\* round() sees the double, so these halves go up and the others go down.
DoubleAbove40 == {1, 9, 11, 13, 21, 27, 31, 37}

\* round(num / den, 2) in hundredths, for 0 <= num <= den < 200.  A quotient
\* that lies halfway between two hundredths is a multiple of 1/8, which the
\* double holds exactly and round() takes to the even hundredth, or an odd
\* multiple of 1/40, which the double holds inexactly.
RoundHundredthsExact(num, den) ==
  LET q == (100 * num) \div den
      r == (100 * num) % den
  IN  IF 2 * r > den \/ (2 * r = den /\ q % 2 = 1) THEN q + 1 ELSE q

RoundHundredths(num, den) ==
  LET q == (100 * num) \div den
      r == (100 * num) % den
  IN  IF 2 * r = den /\ (8 * num) % den # 0
        THEN IF (40 * num) \div den \in DoubleAbove40 THEN q + 1 ELSE q
        ELSE RoundHundredthsExact(num, den)

\* The number of maximal runs of '.', '!' and '?' in a word: re.split cuts
\* the text at each of them.
PunctuationRuns(word) ==
  CASE word \in {"results!", "progress."} -> 1
    [] word = "e.g." -> 2
    [] OTHER -> 0

RECURSIVE SumRuns(_)
SumRuns(text) ==
  IF text = <<>> THEN 0 ELSE PunctuationRuns(Head(text)) + SumRuns(Tail(text))

\* len(re.split(r'[.!?]+', text))
Sentences(text) == SumRuns(text) + 1

\* len([word for word in words if len(word) > 6])
ComplexWords(text) == Cardinality({k \in 1..Len(text) : Len(text[k]) > 6})

Max(a, b) == IF a > b THEN a ELSE b

\* DataAnalysisTool.calculate_readability without the return for no words.
CalculateReadabilityUnguarded(text) ==
  LET words == Len(text)
      sentences == Max(Sentences(text), 1)
      \* words_per_sentence = words / sentences;
      \* complexity_ratio = complex / max(words, 1);
      \* 1 - complexity_ratio + (30 / words_per_sentence) / 100
      \*   = num / den with:
      den == 10 * Max(words, 1)
      num == den - 10 * ComplexWords(text) + 3 * sentences
  IN  IF words = 0 THEN Raise("ZeroDivisionError")
      ELSE IF num >= den THEN Return(100)
      ELSE IF num <= 0 THEN Return(0)
      ELSE Return(RoundHundredths(num, den))

\* DataAnalysisTool.calculate_readability; the score is in hundredths.
CalculateReadability(text) ==
  IF Len(text) = 0 THEN Return(0) ELSE CalculateReadabilityUnguarded(text)

\* SentimentAnalyzerTool.__init__
PositiveWords ==
  {"good", "excellent", "great", "amazing", "positive", "successful",
   "beneficial", "effective"}
NegativeWords ==
  {"bad", "poor", "terrible", "negative", "failed", "problem", "issue",
   "challenge"}

CountIn(text, words) == Cardinality({k \in 1..Len(text) : text[k] \in words})

\* SentimentAnalyzerTool.analyze_sentiment; the score is in hundredths.
\* (The words of the model's texts that belong to the lexicons are written
\* in lower case, as text.lower() makes them.)
AnalyzeSentiment(text) ==
  LET positive_count == CountIn(text, PositiveWords)
      negative_count == CountIn(text, NegativeWords)
      total_relevant == positive_count + negative_count
  IN  [sentiment |->
         IF total_relevant = 0 THEN "neutral"
         ELSE IF 10 * positive_count > 6 * total_relevant THEN "positive"
         ELSE IF 10 * positive_count < 4 * total_relevant THEN "negative"
         ELSE "neutral",
       score |-> IF total_relevant = 0 THEN 50
                 ELSE RoundHundredths(positive_count, total_relevant),
       positive_words |-> positive_count,
       negative_words |-> negative_count,
       total_words_analyzed |-> Len(text)]

\* AnalysisAgent.analyze_content (readability_score and key_topics are left
\* out of the report).
AnalyzeContent(analysis_data, g) ==
  LET content == Get(analysis_data, "content", <<>>)
      gen == Generate(g, FallbackAnalysis)
  IN  IF gen.kind = "raise" THEN gen
      ELSE Return([status |-> "completed",
                   analysis_report |->
                     [analysis |-> gen.value,
                      sentiment |-> AnalyzeSentiment(content),
                      content_length |-> Len(content)],
                   agent |-> "analysis"])

(***************************************************************************)
(* Actions                                                                 *)
(***************************************************************************)

\* Variant of Submit: the id may be one that was handed out before.
SubmitAnyId(id, request) ==
  /\ active_tasks' = (id :> NewTaskRecord(request)) @@ active_tasks
  /\ reg_writes' = [reg_writes EXCEPT ![id] = <<"pending">>]
  /\ pc' = [pc EXCEPT ![id] = "scheduled"]
  /\ response' = TaskResponse(id, request)
  /\ UNCHANGED <<coord_tasks, sessions, research_result, writing_result,
                 calls, rets, coord_out, coord_writes, memory, in_generate,
                 route_sessions, direct, bank>>

\* POST /research with a fresh uuid4: store the record, schedule the
\* background routine, answer.
Submit(id, request) ==
  /\ id \notin DOMAIN active_tasks
  /\ active_tasks' = (id :> NewTaskRecord(request)) @@ active_tasks
  /\ reg_writes' = [reg_writes EXCEPT ![id] = <<"pending">>]
  /\ pc' = [pc EXCEPT ![id] = "scheduled"]
  /\ response' = TaskResponse(id, request)
  /\ UNCHANGED <<coord_tasks, sessions, research_result, writing_result,
                 calls, rets, coord_out, coord_writes, memory, in_generate,
                 route_sessions, direct, bank>>

\* GET /tasks/{task_id}
Poll(id) ==
  /\ response' = GetTaskStatus(active_tasks, id)
  /\ UNCHANGED <<active_tasks, coord_tasks, sessions, pc, research_result,
                 writing_result, calls, rets, coord_out, reg_writes,
                 coord_writes, memory, in_generate,
                 route_sessions, direct, bank>>

\* Variant of BoundaryRecord: the outcome is not written to the record.
BoundaryRecordDropped(rec, out) == rec

\* GET /tasks
List ==
  /\ response' = ListTasks(active_tasks)
  /\ UNCHANGED <<active_tasks, coord_tasks, sessions, pc, research_result,
                 writing_result, calls, rets, coord_out, reg_writes,
                 coord_writes, memory, in_generate,
                 route_sessions, direct, bank>>

\* What execute_research_task does with the way coordinate_task ended.
BoundaryRecord(rec, out) ==
  IF out.kind = "return" THEN RecordResult(rec, out.value)
  ELSE RecordFailure(rec, out.msg)

\* The coordinator's state after a step; when coordinate_task has ended
\* (cs.out is set), the boundary's write and the end of the routine.
Commit(id, reg, regw, cs) ==
  /\ coord_tasks' = cs.tasks
  /\ sessions' = cs.sessions
  /\ coord_writes' = cs.writes
  /\ coord_out' = [coord_out EXCEPT ![id] = cs.out]
  /\ IF cs.out = None
       THEN /\ active_tasks' = reg
            /\ reg_writes' = regw
       ELSE LET rec == BoundaryRecord(reg[id], cs.out)
            IN  /\ active_tasks' = [reg EXCEPT ![id] = rec]
                /\ reg_writes' = [regw EXCEPT ![id] = Append(@, rec.status)]

Here == CoordState(coord_tasks, sessions, coord_writes)

\* Variant of Start: the research and the writing stage are called together.
StartTwoStages(id, so) ==
  /\ pc[id] = "scheduled"
  /\ LET task_data == TaskData(id, active_tasks[id].request)
         cs == CoordinateBegin(Here, id, so)
     IN  /\ Commit(id, [active_tasks EXCEPT ![id] = MarkInProgress(@)],
                   [reg_writes EXCEPT ![id] = Append(@, "in_progress")], cs)
         /\ pc' = [pc EXCEPT ![id] = IF cs.out = None THEN "research"
                                     ELSE "done"]
         /\ calls' = [calls EXCEPT ![id] =
              IF cs.out = None
                THEN @ \o <<[stage |-> "research",
                             args |-> ResearchArgs(task_data)],
                            [stage |-> "writing", args |-> <<>>]>>
                ELSE @]
  /\ UNCHANGED <<research_result, writing_result, rets, response, memory,
                 in_generate, route_sessions, direct, bank>>

\* The background routine starts: mark the record in progress, enter
\* coordinate_task, call the research stage (the routine suspends in it).
Start(id, so) ==
  /\ pc[id] = "scheduled"
  /\ LET task_data == TaskData(id, active_tasks[id].request)
         cs == CoordinateBegin(Here, id, so)
     IN  /\ Commit(id, [active_tasks EXCEPT ![id] = MarkInProgress(@)],
                   [reg_writes EXCEPT ![id] = Append(@, "in_progress")], cs)
         /\ pc' = [pc EXCEPT ![id] = IF cs.out = None THEN "research"
                                     ELSE "done"]
         /\ calls' = [calls EXCEPT ![id] =
              IF cs.out = None
                THEN Append(@, [stage |-> "research",
                                args |-> ResearchArgs(task_data)])
                ELSE @]
  /\ UNCHANGED <<research_result, writing_result, rets, response, memory,
                 in_generate, route_sessions, direct, bank>>

\* coordinate_task goes on after the research call: on success the writing
\* stage is called.
ResearchEnds(id, o, soF) ==
  /\ pc[id] = "research"
  /\ LET task_data == TaskData(id, active_tasks[id].request)
         r == AfterResearch(o, task_data)
         cs == FailOrGo(Here, id, r, soF)
     IN  /\ Commit(id, active_tasks, reg_writes, cs)
         /\ pc' = [pc EXCEPT ![id] = IF cs.out = None THEN "writing"
                                     ELSE "done"]
         /\ calls' = [calls EXCEPT ![id] =
              IF cs.out = None
                THEN Append(@, [stage |-> "writing", args |-> r.value])
                ELSE @]
         /\ research_result' = [research_result EXCEPT ![id] =
              IF o.kind = "return" THEN o.value ELSE @]
  /\ rets' = [rets EXCEPT ![id] = Append(@, o)]
  /\ UNCHANGED <<writing_result, response>>

\* The research call ends with outcome o.
ResearchReturns(id, o, soF) ==
  /\ ResearchEnds(id, o, soF)
  /\ UNCHANGED <<memory, in_generate, route_sessions, direct, bank>>

\* coordinate_task goes on after the writing call: on success the analysis
\* stage is called.
WritingEnds(id, o, soF) ==
  /\ pc[id] = "writing"
  /\ LET r == AfterWriting(o)
         cs == FailOrGo(Here, id, r, soF)
     IN  /\ Commit(id, active_tasks, reg_writes, cs)
         /\ pc' = [pc EXCEPT ![id] = IF cs.out = None THEN "analysis"
                                     ELSE "done"]
         /\ calls' = [calls EXCEPT ![id] =
              IF cs.out = None
                THEN Append(@, [stage |-> "analysis", args |-> r.value])
                ELSE @]
         /\ writing_result' = [writing_result EXCEPT ![id] =
              IF o.kind = "return" THEN o.value ELSE @]
  /\ rets' = [rets EXCEPT ![id] = Append(@, o)]
  /\ UNCHANGED <<research_result, response>>

\* The writing call ends with outcome o.
WritingReturns(id, o, soF) ==
  /\ WritingEnds(id, o, soF)
  /\ UNCHANGED <<memory, in_generate, route_sessions, direct, bank>>

\* coordinate_task goes on after the analysis call: it finishes one way or
\* the other and the boundary records the outcome.
AnalysisEnds(id, o, soC, soF) ==
  /\ pc[id] = "analysis"
  /\ LET r == AfterAnalysis(o, id, research_result[id], writing_result[id])
         cs == IF r.kind = "raise"
                 THEN CoordinateFail(Here, id, r.msg, soF)
                 ELSE CoordinateComplete(Here, id, r.value, soC, soF)
     IN  Commit(id, active_tasks, reg_writes, cs)
  /\ pc' = [pc EXCEPT ![id] = "done"]
  /\ rets' = [rets EXCEPT ![id] = Append(@, o)]
  /\ UNCHANGED <<research_result, writing_result, calls, response>>

\* The analysis call ends with outcome o.
AnalysisReturns(id, o, soC, soF) ==
  /\ AnalysisEnds(id, o, soC, soF)
  /\ UNCHANGED <<memory, in_generate, route_sessions, direct, bank>>

\* The research call of task id is served by ResearchAgent.execute_task:
\* g is what the generation model does, ms what the memory store does.
ResearchServed(id, g, ms) ==
  /\ pc[id] = "research"
  /\ LET args == calls[id][Len(calls[id])].args
         o == ExecuteResearch(args, g)
     IN  /\ ResearchEnds(id, o, "ok")
         /\ memory' =
              IF o.kind = "raise" THEN memory
              ELSE [memory EXCEPT !["research"] =
                      StoreMemory(@, "research_" \o Get(args, "topic", ""),
                                  o.value.result,
                                  [depth |-> Get(args, "depth",
                                                 "comprehensive"),
                                   topic |-> Get(args, "topic", "")], ms)]

\* The writing call of task id is served by WritingAgent.execute_task.
WritingServed(id, g, ms) ==
  /\ pc[id] = "writing"
  /\ LET args == calls[id][Len(calls[id])].args
         o == GenerateContent(args, g)
     IN  /\ WritingEnds(id, o, "ok")
         /\ memory' =
              IF o.kind = "raise" THEN memory
              ELSE [memory EXCEPT !["writing"] =
                      StoreMemory(@, "content_" \o o.value.content_type,
                                  o.value.content,
                                  [content_type |-> o.value.content_type,
                                   tone |-> Get(args, "tone", "professional"),
                                   length |-> Get(args, "length", "medium")],
                                  ms)]

\* The analysis call of task id is served by AnalysisAgent.execute_task.
AnalysisServed(id, g, ms) ==
  /\ pc[id] = "analysis"
  /\ LET args == calls[id][Len(calls[id])].args
         o == AnalyzeContent(args, g)
     IN  /\ AnalysisEnds(id, o, "ok", "ok")
         /\ memory' =
              IF o.kind = "raise" THEN memory
              ELSE [memory EXCEPT !["analysis"] =
                      StoreMemory(@, "analysis_" \o Get(args, "analysis_type",
                                                        "comprehensive"),
                                  o.value.analysis_report,
                                  [analysis_type |->
                                     Get(args, "analysis_type",
                                         "comprehensive")], ms)]

\* The stage calls served by the repository's agents.
ResearchWorker(id, g, ms) ==
  /\ ResearchServed(id, g, ms)
  /\ UNCHANGED <<in_generate, route_sessions, direct, bank>>

WritingWorker(id, g, ms) ==
  /\ WritingServed(id, g, ms)
  /\ UNCHANGED <<in_generate, route_sessions, direct, bank>>

AnalysisWorker(id, g, ms) ==
  /\ AnalysisServed(id, g, ms)
  /\ UNCHANGED <<in_generate, route_sessions, direct, bank>>

\* The steps of the program, the session store's steps drawn from S.
Step(S) ==
  \/ \E id \in TaskIds, request \in Requests : Submit(id, request)
  \/ \E id \in TaskIds : Poll(id)
  \/ \E id \in TaskIds, so \in S : Start(id, so)
  \/ \E id \in TaskIds, o \in ResearchOutcomes, so \in S :
        ResearchReturns(id, o, so)
  \/ \E id \in TaskIds, o \in WritingOutcomes, so \in S :
        WritingReturns(id, o, so)
  \/ \E id \in TaskIds, o \in AnalysisOutcomes, soC \in S, soF \in S :
        AnalysisReturns(id, o, soC, soF)

\* The session store never raises: what session_manager.py does.
Next == Step(SessionOk)

Spec == Init /\ [][Next]_vars

\* The session store's steps may raise.
NextFault == Step(SessionMayRaise)

SpecFault == Init /\ [][NextFault]_vars

\* The program with the listing of the tasks.
NextList == Next \/ List

SpecList == Init /\ [][NextList]_vars

\* SessionManager.get_session_stats (the list of session infos and the
\* oldest and newest creation times are left out).
GetSessionStats(ss) == [total_sessions |-> Cardinality(DOMAIN ss)]

\* GET /status: the counts come from routes.active_tasks and from
\* routes.session_manager (memory_entries are left out).
Status ==
  /\ response' =
       [endpoint |-> "status", status |-> "operational",
        active_tasks |-> Cardinality(DOMAIN active_tasks),
        active_sessions |->
          Get(GetSessionStats(route_sessions), "total_sessions", 0)]
  /\ UNCHANGED <<active_tasks, coord_tasks, sessions, pc, research_result,
                 writing_result, calls, rets, coord_out, reg_writes,
                 coord_writes, memory, in_generate, route_sessions, direct,
                 bank>>

\* GET /sessions/stats
SessionStats ==
  /\ response' = [endpoint |-> "sessions/stats"]
                   @@ GetSessionStats(route_sessions)
  /\ UNCHANGED <<active_tasks, coord_tasks, sessions, pc, research_result,
                 writing_result, calls, rets, coord_out, reg_writes,
                 coord_writes, memory, in_generate, route_sessions, direct,
                 bank>>

\* The program with the status endpoints.
NextStatus == Next \/ Status \/ SessionStats

SpecStatus == Init /\ [][NextStatus]_vars

\* The program as routes.py builds it: the coordinator drives the three
\* stage agents of the repository.
NextWorkers ==
  \/ \E id \in TaskIds, request \in Requests : Submit(id, request)
  \/ \E id \in TaskIds : Poll(id)
  \/ \E id \in TaskIds : Start(id, "ok")
  \/ \E id \in TaskIds, g \in GenOutcomes, ms \in MemoryOutcomes :
        ResearchWorker(id, g, ms)
  \/ \E id \in TaskIds, g \in GenOutcomes, ms \in MemoryOutcomes :
        WritingWorker(id, g, ms)
  \/ \E id \in TaskIds, g \in GenOutcomes, ms \in MemoryOutcomes :
        AnalysisWorker(id, g, ms)

SpecWorkers == Init /\ [][NextWorkers]_vars

\* The same program, where a stage call may also end with an exception the
\* agent does not catch; the routines only (no poll).
NextWorkersRaise ==
  \/ \E id \in TaskIds, request \in Requests : Submit(id, request)
  \/ \E id \in TaskIds : Start(id, "ok")
  \/ \E id \in TaskIds, g \in GenOutcomes, ms \in MemoryOutcomes :
        ResearchWorker(id, g, ms)
  \/ \E id \in TaskIds, g \in GenOutcomes, ms \in MemoryOutcomes :
        WritingWorker(id, g, ms)
  \/ \E id \in TaskIds, g \in GenOutcomes, ms \in MemoryOutcomes :
        AnalysisWorker(id, g, ms)
  \/ \E id \in TaskIds : ResearchReturns(id, Raise("research error"), "ok")
  \/ \E id \in TaskIds : WritingReturns(id, Raise("writing error"), "ok")
  \/ \E id \in TaskIds :
        AnalysisReturns(id, Raise("analysis error"), "ok", "ok")

SpecWorkersRaise == Init /\ [][NextWorkersRaise]_vars

\* The steps of the background routine of one task.
Routine(id) ==
  \/ \E so \in SessionMayRaise : Start(id, so)
  \/ \E o \in ResearchOutcomes, so \in SessionMayRaise :
        ResearchReturns(id, o, so)
  \/ \E o \in WritingOutcomes, so \in SessionMayRaise :
        WritingReturns(id, o, so)
  \/ \E o \in AnalysisOutcomes, soC \in SessionMayRaise,
        soF \in SessionMayRaise : AnalysisReturns(id, o, soC, soF)

\* Fair scheduling: the event loop runs every scheduled background routine,
\* and every stage call that is in progress returns or raises.  (At most one
\* step of a routine is enabled at a time, so this is weak fairness of each
\* of them.)
Fairness == \A id \in TaskIds : WF_vars(Routine(id))

SpecLive == Init /\ [][NextFault]_vars /\ Fairness

(***************************************************************************)
(* The tools and the memory bank called on their own: one call per step,   *)
(* its arguments drawn from bounded sets, its return value in response.    *)
(***************************************************************************)

\* The largest number of positive, and of negative, lexicon words in a text.
MaxCount == 27

\* A text of n words, all of them w.
RECURSIVE Repeat(_, _)
Repeat(w, n) == IF n = 0 THEN <<>> ELSE Append(Repeat(w, n - 1), w)

\* Texts with p positive, n negative and one or two other words.
SentimentTexts ==
  {<<"this">> \o Repeat("great", p) \o Repeat("poor", n) \o other :
     p \in 0..MaxCount, n \in 0..MaxCount,
     other \in {<<>>, <<"product.">>}}

\* await sentiment_analyzer.analyze_sentiment(text)
CallAnalyzeSentiment(text) ==
  /\ response' = [op |-> "analyze_sentiment", text |-> text,
                  result |-> AnalyzeSentiment(text)]
  /\ UNCHANGED <<active_tasks, coord_tasks, sessions, pc, research_result,
                 writing_result, calls, rets, coord_out, reg_writes,
                 coord_writes, memory, in_generate, route_sessions, direct,
                 bank>>

NextSentiment == \E text \in SentimentTexts : CallAnalyzeSentiment(text)

SpecSentiment == Init /\ [][NextSentiment]_vars

\* The most words of a text given to calculate_readability.
MaxWords == 4

\* Words of six and of seven letters, with and without sentence ends.
ReadWords == {"simple", "complex", "e.g.", "results!"}

ReadTexts == UNION {[1..n -> ReadWords] : n \in 0..MaxWords}

\* await data_analysis.calculate_readability(text)
CallCalculateReadability(text) ==
  /\ response' = [op |-> "calculate_readability", text |-> text,
                  result |-> CalculateReadability(text)]
  /\ UNCHANGED <<active_tasks, coord_tasks, sessions, pc, research_result,
                 writing_result, calls, rets, coord_out, reg_writes,
                 coord_writes, memory, in_generate, route_sessions, direct,
                 bank>>

NextReadability == \E text \in ReadTexts : CallCalculateReadability(text)

SpecReadability == Init /\ [][NextReadability]_vars

\* Values stored under the keys of a data dict: a string, a number, a tuple,
\* a list, a datetime (each record names its Python type).
StoredDatas ==
  {[key |-> [str |-> "value"], number |-> [int |-> 42]],
   [pair |-> [tuple |-> <<1, 2>>]],
   [when |-> [datetime |-> Now]]}

MemoryKeys == {"test_memory", "other"}

\* json.dumps of a memory_data envelope: a tuple is written as a list, a
\* datetime is not serialisable; the text is held as the value it denotes.
JsonValue(v) == IF "tuple" \in DOMAIN v THEN [list |-> v.tuple] ELSE v

Dumps(memory_data) ==
  IF \E k \in DOMAIN memory_data.data :
       "datetime" \in DOMAIN memory_data.data[k]
    THEN Raise("TypeError")
    ELSE Return([json |->
           [data |-> [k \in DOMAIN memory_data.data |->
                        JsonValue(memory_data.data[k])],
            metadata |-> memory_data.metadata,
            timestamp |-> memory_data.timestamp]])

\* json.loads
Loads(text) == text.json

\* MemoryBank.initialize; up: the Redis server answers the ping.
Initialize(b, up) ==
  IF ~b.redis_client THEN [b EXCEPT !.redis_client = up] ELSE b

\* MemoryBank.store_memory; io: setex returns ("ok") or raises ("error").
\* An exception of json.dumps or of setex is caught and logged.
BankStore(b, key, data, up, io) ==
  LET b1 == [Initialize(b, up) EXCEPT
               !.stored_keys = b.stored_keys \cup {key}]
      memory_data == [data |-> data, metadata |-> <<>>, timestamp |-> Now]
      dumped == Dumps(memory_data)
  IN  IF b1.redis_client
        THEN IF dumped.kind = "raise" \/ io = "error" THEN b1
             ELSE [b1 EXCEPT
                     !.redis = (("memory:" \o key) :> dumped.value) @@ @]
        ELSE [b1 EXCEPT
                !.fallback_storage = StoreMemory(@, key, data, <<>>, "stored")]

\* MemoryBank.retrieve_memory: the bank after initialize() and the value
\* returned; io: get returns ("ok") or raises ("error").
BankRetrieve(b, key, up, io) ==
  LET b1 == Initialize(b, up)
      data == Get(b1.redis, "memory:" \o key, None)
  IN  [bank |-> b1,
       value |-> IF b1.redis_client
                   THEN IF io = "error" \/ data = None THEN None
                        ELSE Loads(data)
                   ELSE Get(b1.fallback_storage, "memory:" \o key, None)]

RedisIo == {"ok", "error"}

\* await memory_bank.store_memory(key, data)
CallStoreMemory(key, data, up, io) ==
  /\ bank' = BankStore(bank, key, data, up, io)
  /\ response' = [op |-> "store_memory", key |-> key, data |-> data]
  /\ UNCHANGED <<active_tasks, coord_tasks, sessions, pc, research_result,
                 writing_result, calls, rets, coord_out, reg_writes,
                 coord_writes, memory, in_generate, route_sessions, direct>>

\* await memory_bank.retrieve_memory(key)
CallRetrieveMemory(key, up, io) ==
  /\ bank' = BankRetrieve(bank, key, up, io).bank
  /\ response' = [op |-> "retrieve_memory", key |-> key,
                  result |-> BankRetrieve(bank, key, up, io).value]
  /\ UNCHANGED <<active_tasks, coord_tasks, sessions, pc, research_result,
                 writing_result, calls, rets, coord_out, reg_writes,
                 coord_writes, memory, in_generate, route_sessions, direct>>

NextMemory ==
  \/ \E key \in MemoryKeys, data \in StoredDatas, up \in BOOLEAN,
        io \in RedisIo : CallStoreMemory(key, data, up, io)
  \/ \E key \in MemoryKeys, up \in BOOLEAN, io \in RedisIo :
        CallRetrieveMemory(key, up, io)

SpecMemory == Init /\ [][NextMemory]_vars

\* The most entries a search returns to execute_research.
MaxEntries == 4

\* Search-result entries: with a url, with another url, and without the url
\* field; the results of a search may hold an entry more than once.
SearchEntries ==
  {[title |-> "Research Result 1", url |-> Urls[1]],
   [title |-> "Research Result 2", url |-> Urls[2]],
   [title |-> "Fallback result"]}

SearchResults == UNION {[1..n -> SearchEntries] : n \in 0..MaxEntries}

\* await research_agent.execute_research(research_data) over a search tool
\* that returns search_results.
CallExecuteResearch(topic, g, search_results) ==
  /\ response' = [op |-> "execute_research",
                  search_results |-> search_results,
                  result |-> ExecuteResearchFrom(
                               [task_id |-> "t", topic |-> topic], g,
                               search_results)]
  /\ UNCHANGED <<active_tasks, coord_tasks, sessions, pc, research_result,
                 writing_result, calls, rets, coord_out, reg_writes,
                 coord_writes, memory, in_generate, route_sessions, direct,
                 bank>>

NextSources ==
  \E topic \in Topics, g \in GenOutcomes, search_results \in SearchResults :
    CallExecuteResearch(topic, g, search_results)

SpecSources == Init /\ [][NextSources]_vars

(***************************************************************************)
(* The coordinator used through its own interface: new_task and            *)
(* task_update messages (process_message), execute_task, and               *)
(* get_system_metrics.  Here task id k stands for the string "task_<k-1>", *)
(* the form of the ids coordinate_task generates.                          *)
(***************************************************************************)

\* The most new_task and task_update messages handled in a run of the model.
MaxMessages == 3

\* f"task_{len(self.active_tasks)}"
GeneratedId(tasks) == Cardinality(DOMAIN tasks) + 1

\* task_data of a new_task message: with a task_id, or without one.
DirectTaskData ==
  [topic : Topics] \cup [task_id : TaskIds, topic : Topics]

\* update_data of a task_update message.
UpdateData ==
  [task_id : TaskIds, status : {"in_progress", "completed"}]
  \cup [task_id : TaskIds, current_step : {"review"}]

\* handle_task_update: the coordinator's records after it.
HandleTaskUpdateRecords(tasks, update_data) ==
  IF update_data.task_id \in DOMAIN tasks
    THEN [tasks EXCEPT ![update_data.task_id] = Update(@, update_data)]
    ELSE tasks

\* handle_task_update: what it returns.
HandleTaskUpdateAnswer(tasks, update_data) ==
  IF update_data.task_id \in DOMAIN tasks
    THEN [status |-> "updated", task_id |-> update_data.task_id]
    ELSE [status |-> "error", reason |-> "task_not_found"]

CountStatus(tasks, status) ==
  Cardinality({t \in DOMAIN tasks : Get(tasks[t], "status", "None") = status})

\* get_system_metrics; success_rate is the quotient num / den.
GetSystemMetrics(tasks, ss) ==
  [total_tasks |-> Cardinality(DOMAIN tasks),
   completed_tasks |-> CountStatus(tasks, "completed"),
   failed_tasks |-> CountStatus(tasks, "failed"),
   success_rate |-> [num |-> CountStatus(tasks, "completed"),
                     den |-> Max(Cardinality(DOMAIN tasks), 1)],
   active_sessions |-> Cardinality(DOMAIN ss)]

\* The k-th routine still holds the session stored under its id: no later
\* coordinate_task for the id has put a new Session in its place.
OwnsSession(k) ==
  \A j \in (k + 1)..Len(direct.routines) :
    direct.routines[j].task_id = direct.routines[k].task_id
      => ~direct.routines[j].has_session

\* The coordinator's state after a step of the k-th routine; a routine that
\* no longer holds the stored session writes to its own Session object.
CommitDirect(k, cs) ==
  /\ coord_tasks' = cs.tasks
  /\ coord_writes' = cs.writes
  /\ sessions' = IF OwnsSession(k) THEN cs.sessions ELSE sessions

\* A new_task message, or execute_task: coordinate_task starts and runs to
\* the research call (or raises in create_session).
CoordinateTask(task_data, so) ==
  LET task_id == Get(task_data, "task_id", GeneratedId(coord_tasks))
      cs == CoordinateBegin(Here, task_id, so)
  IN  /\ direct.handled < MaxMessages
      /\ task_id \in TaskIds
      /\ coord_tasks' = cs.tasks
      /\ coord_writes' = cs.writes
      /\ sessions' = cs.sessions
      /\ direct' =
           [routines |->
              Append(direct.routines,
                     [task_id |-> task_id, task_data |-> task_data,
                      has_session |-> cs.out = None,
                      pc |-> IF cs.out = None THEN "research" ELSE "done",
                      research_result |-> None, writing_result |-> None,
                      out |-> cs.out]),
            handled |-> direct.handled + 1,
            answer |-> [op |-> "coordinate_task", task_id |-> task_id,
                        generated |-> "task_id" \notin DOMAIN task_data,
                        known |-> DOMAIN coord_tasks]]
      /\ UNCHANGED <<active_tasks, pc, research_result, writing_result,
                     calls, rets, coord_out, reg_writes, response, memory,
                     in_generate, route_sessions, bank>>

\* The research call of the k-th routine ends with outcome o.
DirectResearchReturns(k, o, soF) ==
  /\ k \in 1..Len(direct.routines)
  /\ direct.routines[k].pc = "research"
  /\ LET rt == direct.routines[k]
         r == AfterResearch(o, rt.task_data)
         cs == FailOrGo(Here, rt.task_id, r, soF)
     IN  /\ CommitDirect(k, cs)
         /\ direct' = [direct EXCEPT
              !.routines[k] =
                 [rt EXCEPT
                    !.pc = IF cs.out = None THEN "writing" ELSE "done",
                    !.research_result =
                       IF o.kind = "return" THEN o.value ELSE @,
                    !.out = cs.out]]
  /\ UNCHANGED <<active_tasks, pc, research_result, writing_result, calls,
                 rets, coord_out, reg_writes, response, memory, in_generate,
                 route_sessions, bank>>

\* The writing call of the k-th routine ends with outcome o.
DirectWritingReturns(k, o, soF) ==
  /\ k \in 1..Len(direct.routines)
  /\ direct.routines[k].pc = "writing"
  /\ LET rt == direct.routines[k]
         r == AfterWriting(o)
         cs == FailOrGo(Here, rt.task_id, r, soF)
     IN  /\ CommitDirect(k, cs)
         /\ direct' = [direct EXCEPT
              !.routines[k] =
                 [rt EXCEPT
                    !.pc = IF cs.out = None THEN "analysis" ELSE "done",
                    !.writing_result =
                       IF o.kind = "return" THEN o.value ELSE @,
                    !.out = cs.out]]
  /\ UNCHANGED <<active_tasks, pc, research_result, writing_result, calls,
                 rets, coord_out, reg_writes, response, memory, in_generate,
                 route_sessions, bank>>

\* The analysis call of the k-th routine ends with outcome o:
\* coordinate_task returns or raises.
DirectAnalysisReturns(k, o, soC, soF) ==
  /\ k \in 1..Len(direct.routines)
  /\ direct.routines[k].pc = "analysis"
  /\ LET rt == direct.routines[k]
         r == AfterAnalysis(o, rt.task_id, rt.research_result,
                            rt.writing_result)
         cs == IF r.kind = "raise"
                 THEN CoordinateFail(Here, rt.task_id, r.msg, soF)
                 ELSE CoordinateComplete(Here, rt.task_id, r.value, soC, soF)
     IN  /\ CommitDirect(k, cs)
         /\ direct' = [direct EXCEPT
              !.routines[k] = [rt EXCEPT !.pc = "done", !.out = cs.out]]
  /\ UNCHANGED <<active_tasks, pc, research_result, writing_result, calls,
                 rets, coord_out, reg_writes, response, memory, in_generate,
                 route_sessions, bank>>

\* A task_update message.
HandleTaskUpdate(update_data) ==
  /\ direct.handled < MaxMessages
  /\ coord_tasks' = HandleTaskUpdateRecords(coord_tasks, update_data)
  /\ coord_writes' =
       IF update_data.task_id \in DOMAIN coord_tasks
            /\ "status" \in DOMAIN update_data
         THEN [coord_writes EXCEPT
                 ![update_data.task_id] = Append(@, update_data.status)]
         ELSE coord_writes
  /\ direct' = [direct EXCEPT
       !.handled = @ + 1,
       !.answer = [op |-> "task_update", update_data |-> update_data,
                   result |-> HandleTaskUpdateAnswer(coord_tasks,
                                                     update_data)]]
  /\ UNCHANGED <<active_tasks, sessions, pc, research_result, writing_result,
                 calls, rets, coord_out, reg_writes, response, memory,
                 in_generate, route_sessions, bank>>

\* await coordinator.get_system_metrics()
SystemMetrics ==
  /\ direct' = [direct EXCEPT
       !.answer = [op |-> "get_system_metrics",
                   result |-> GetSystemMetrics(coord_tasks, sessions)]]
  /\ UNCHANGED <<active_tasks, coord_tasks, sessions, pc, research_result,
                 writing_result, calls, rets, coord_out, reg_writes,
                 coord_writes, response, memory, in_generate, route_sessions,
                 bank>>

NextCoordinator ==
  \/ \E task_data \in DirectTaskData, so \in SessionMayRaise :
        CoordinateTask(task_data, so)
  \/ \E k \in 1..MaxMessages, o \in ResearchOutcomes, soF \in SessionOk :
        DirectResearchReturns(k, o, soF)
  \/ \E k \in 1..MaxMessages, o \in WritingOutcomes, soF \in SessionOk :
        DirectWritingReturns(k, o, soF)
  \/ \E k \in 1..MaxMessages, o \in AnalysisOutcomes,
        soC \in SessionOk, soF \in SessionOk :
        DirectAnalysisReturns(k, o, soC, soF)
  \/ \E update_data \in UpdateData : HandleTaskUpdate(update_data)
  \/ SystemMetrics

SpecCoordinator == Init /\ [][NextCoordinator]_vars

(***************************************************************************)
(* The event loop when the agents have a generation model                  *)
(* (settings.gemini_api_key is set).  search_async, analyze_content,       *)
(* optimize_content and store_memory are awaited and suspend the routine;  *)
(* self.model.generate_content(prompt) is an ordinary, synchronous call:   *)
(* no await stands before it, so while it runs the event loop runs no      *)
(* other routine and no request handler.                                   *)
(***************************************************************************)

\* The event loop is not held by a synchronous call.
LoopFree == in_generate = 0

LoopSubmit(id, request) == LoopFree /\ Submit(id, request)

LoopPoll(id) == LoopFree /\ Poll(id)

LoopStart(id) == LoopFree /\ Start(id, "ok")

\* The routine of id, resumed inside one of its stages, calls
\* self.model.generate_content.
EnterGenerate(id) ==
  /\ LoopFree
  /\ pc[id] \in Agents
  /\ in_generate' = id
  /\ UNCHANGED <<active_tasks, coord_tasks, sessions, pc, research_result,
                 writing_result, calls, rets, coord_out, reg_writes,
                 coord_writes, response, memory, route_sessions, direct, bank>>

\* generate_content returns or raises; the stage goes on to its end.
LeaveGenerate(id, g, ms) ==
  /\ in_generate = id
  /\ g.kind # "absent"
  /\ \/ ResearchServed(id, g, ms)
     \/ WritingServed(id, g, ms)
     \/ AnalysisServed(id, g, ms)
  /\ in_generate' = 0
  /\ UNCHANGED <<route_sessions, direct, bank>>

NextLoop ==
  \/ \E id \in TaskIds, request \in Requests : LoopSubmit(id, request)
  \/ \E id \in TaskIds : LoopPoll(id)
  \/ \E id \in TaskIds : LoopStart(id)
  \/ \E id \in TaskIds : EnterGenerate(id)
  \/ \E id \in TaskIds, g \in GenOutcomes, ms \in MemoryOutcomes :
        LeaveGenerate(id, g, ms)

SpecLoop == Init /\ [][NextLoop]_vars

(***************************************************************************)
(* Properties                                                              *)
(***************************************************************************)

Last(seq) == seq[Len(seq)]
Range(seq) == {seq[k] : k \in 1..Len(seq)}

\* The status a stage outcome reports ("None" when it reports none).
Reported(o) == Get(o.value, "status", "None")

\* coordinate_task has returned (not raised) for id.
Returned(id) == coord_out[id] # None /\ coord_out[id].kind = "return"

\* C1: the registry status of every task is one of pending, in_progress,
\* completed, failed, and the statuses written to a task's record, taken in
\* order, run forward along pending -> in_progress -> completed | failed:
\* nothing is written before pending, nothing moves back, and nothing is
\* written after completed or failed.
C1_StatusForward ==
  \A id \in DOMAIN active_tasks :
    /\ active_tasks[id].status \in Statuses
    /\ reg_writes[id] \in
         {<<"pending">>, <<"pending", "in_progress">>,
          <<"pending", "in_progress", "completed">>,
          <<"pending", "in_progress", "failed">>}
    /\ active_tasks[id].status = Last(reg_writes[id])

\* One task has gone all the way to completed and another to failed.
C1_Witness ==
  \E i, j \in DOMAIN active_tasks :
    /\ reg_writes[i] = <<"pending", "in_progress", "completed">>
    /\ reg_writes[j] = <<"pending", "in_progress", "failed">>

\* C2: when coordinate_task has returned, it has written a terminal status
\* (completed or failed) to its task's record exactly once.
C2_OneTerminalWrite ==
  \A id \in TaskIds :
    Returned(id) =>
      Cardinality({k \in 1..Len(coord_writes[id]) :
                     coord_writes[id][k] \in Terminal}) = 1

\* C3: when the research stage returns a status other than "completed",
\* the task ends failed with the error text "Research phase failed", no
\* other stage is called, and the outcome has neither content nor analysis.
C3_ResearchFailureAborts ==
  \A id \in TaskIds :
    (Len(rets[id]) >= 1 /\ rets[id][1].kind = "return"
       /\ Reported(rets[id][1]) # "completed")
    => /\ pc[id] = "done"
       /\ Returned(id)
       /\ coord_out[id].value.status = "failed"
       /\ coord_out[id].value.error = "Research phase failed"
       /\ {"content", "analysis"} \cap DOMAIN coord_out[id].value = {}
       /\ coord_tasks[id].status = "failed"
       /\ active_tasks[id].status = "failed"
       /\ active_tasks[id].result = coord_out[id].value
       /\ Len(calls[id]) = 1 /\ calls[id][1].stage = "research"

\* A task whose research stage reported a failure.
C3_Witness ==
  \E id \in TaskIds :
    /\ Len(rets[id]) = 1 /\ rets[id][1].kind = "return"
    /\ Reported(rets[id][1]) = "error"
    /\ active_tasks[id].status = "failed"

\* C4: when research completed and the writing stage returns a status other
\* than "completed", the task ends failed with the error text "Writing phase
\* failed", the analysis stage is not called, and the outcome has no
\* analysis.
C4_WritingFailureAborts ==
  \A id \in TaskIds :
    (Len(rets[id]) >= 2 /\ rets[id][2].kind = "return"
       /\ Reported(rets[id][2]) # "completed")
    => /\ pc[id] = "done"
       /\ Returned(id)
       /\ coord_out[id].value.status = "failed"
       /\ coord_out[id].value.error = "Writing phase failed"
       /\ "analysis" \notin DOMAIN coord_out[id].value
       /\ coord_tasks[id].status = "failed"
       /\ active_tasks[id].status = "failed"
       /\ active_tasks[id].result = coord_out[id].value
       /\ Len(calls[id]) = 2
       /\ \A k \in 1..2 : calls[id][k].stage # "analysis"

\* A task whose writing stage reported a failure after research completed.
C4_Witness ==
  \E id \in TaskIds :
    /\ Len(rets[id]) = 2 /\ Reported(rets[id][1]) = "completed"
    /\ rets[id][2].kind = "return" /\ Reported(rets[id][2]) = "error"
    /\ active_tasks[id].status = "failed"

\* C5: when a stage call raises, coordinate_task returns instead of raising:
\* the coordinator's record is failed, the outcome has status failed and the
\* exception's text as its error, and no stage is called after the one that
\* raised.
C5_StageExceptionAbsorbed ==
  \A id \in TaskIds :
    \A k \in 1..Len(rets[id]) :
      rets[id][k].kind = "raise"
      => /\ Returned(id)
         /\ coord_out[id].value.status = "failed"
         /\ coord_out[id].value.error = rets[id][k].msg
         /\ coord_tasks[id].status = "failed"
         /\ active_tasks[id].status = "failed"
         /\ "error" \notin DOMAIN active_tasks[id]
         /\ Len(calls[id]) = k /\ Len(rets[id]) = k

\* One task whose writing call raised, another whose analysis call raised.
C5_Witness ==
  \E i, j \in TaskIds :
    /\ Len(rets[i]) = 2 /\ rets[i][2].kind = "raise"
    /\ Len(rets[j]) = 3 /\ rets[j][3].kind = "raise"
    /\ pc[i] = "done" /\ pc[j] = "done"

\* All three stages were called and returned, research and writing
\* reporting "completed".
AllStagesReturned(id) ==
  /\ Len(rets[id]) = 3
  /\ \A k \in 1..3 : rets[id][k].kind = "return"
  /\ Reported(rets[id][1]) = "completed"
  /\ Reported(rets[id][2]) = "completed"

\* The analysis result holds the report coordinate_task reads from it.
AnalysisReportPresent(id) == "analysis_report" \in DOMAIN rets[id][3].value

\* The claim C6 as stated: a finished task is completed exactly when all
\* three stages returned with research and writing reporting "completed".
C6_Original ==
  \A id \in TaskIds :
    pc[id] = "done" =>
      (active_tasks[id].status = "completed" <=> AllStagesReturned(id))

\* C6 (amended): a finished task is completed exactly when all three stages
\* returned, research and writing reported "completed", and the analysis
\* result holds an analysis_report; the completed outcome then holds the
\* research payload, the writing content, the analysis report and a
\* timeline whose three flags are true.
C6_CompletedIff ==
  \A id \in TaskIds :
    pc[id] = "done" =>
      /\ (active_tasks[id].status = "completed"
            <=> (AllStagesReturned(id) /\ AnalysisReportPresent(id)))
      /\ (coord_tasks[id].status = "completed"
            <=> active_tasks[id].status = "completed")
      /\ active_tasks[id].status = "completed" =>
           LET res == active_tasks[id].result
           IN  /\ res = coord_out[id].value
               /\ res.status = "completed"
               /\ res.research = rets[id][1].value.result
               /\ res.content = rets[id][2].value.content
               /\ res.analysis = rets[id][3].value.analysis_report
               /\ res.timeline = [research_completed |-> TRUE,
                                  writing_completed |-> TRUE,
                                  analysis_completed |-> TRUE]

\* One task completed; another failed although its three stages returned
\* with research and writing reporting "completed".
C6_Witness ==
  \E i, j \in TaskIds :
    /\ pc[i] = "done" /\ active_tasks[i].status = "completed"
    /\ pc[j] = "done" /\ active_tasks[j].status = "failed"
    /\ AllStagesReturned(j)

\* C7: a task of which some stage, analysis included, reported a status
\* other than "completed" never is completed, and is failed once finished.
C7_ReportedFailureFails ==
  \A id \in TaskIds :
    (\E k \in 1..Len(rets[id]) :
        rets[id][k].kind = "return" /\ Reported(rets[id][k]) # "completed")
    => /\ active_tasks[id].status # "completed"
       /\ coord_tasks[id].status # "completed"
       /\ pc[id] = "done" => active_tasks[id].status = "failed"

IsPoll(r) == Get(r, "endpoint", "none") = "tasks"
IsSubmit(r) == Get(r, "endpoint", "none") = "research"

\* A registry record as a poll may return it: not terminal, with no result
\* and no completed_at; or terminal, with completed_at and a result or an
\* error text.
ConsistentRecord(r) ==
  /\ r.status \in Statuses
  /\ r.status \notin Terminal =>
       /\ r.result = None
       /\ {"completed_at", "error"} \cap DOMAIN r = {}
  /\ r.status \in Terminal =>
       /\ "completed_at" \in DOMAIN r
       /\ r.result # None \/ "error" \in DOMAIN r

\* C8: every record a poll returns, and every record the registry holds at
\* a point where a poll can run, is consistent; and the coordinator's record
\* and session of a task show a terminal status only when the registry
\* record of that task is terminal too.
C8_PollConsistent ==
  /\ (IsPoll(response) /\ response.code = 200)
       => ConsistentRecord(response.body)
  /\ \A id \in DOMAIN active_tasks :
       /\ ConsistentRecord(active_tasks[id])
       /\ (id \in DOMAIN coord_tasks /\ coord_tasks[id].status \in Terminal)
            => active_tasks[id].status \in Terminal
       /\ (id \in DOMAIN sessions
             /\ DOMAIN sessions[id].state \cap Terminal # {})
            => active_tasks[id].status \in Terminal

\* A poll answered between two stages of its task, and the same task later
\* finished.
C8_Witness ==
  \E id \in TaskIds :
    /\ IsPoll(response) /\ response.id = id /\ response.code = 200
    /\ response.body.status = "in_progress"
    /\ Len(rets[id]) >= 1
    /\ pc[id] = "done" /\ active_tasks[id].status = "completed"

\* The claim C9 as stated: once coordinate_task has returned, the session
\* holds a state entry and a history entry for every status the coordinator
\* wrote to the task's record, in_progress included.
C9_Original ==
  \A id \in TaskIds :
    Returned(id) =>
      \A st \in Range(coord_writes[id]) :
        /\ st \in DOMAIN sessions[id].state
        /\ \E h \in Range(sessions[id].history) : h.key = st

\* C9 (amended): once coordinate_task has returned, the session holds the
\* terminal status the coordinator wrote (completed with the final result,
\* or failed with the error text) as its only state entry and its only
\* history entry; entering in_progress creates the session and writes
\* nothing into it.
C9_TerminalMirrored ==
  \A id \in TaskIds :
    /\ (id \in DOMAIN coord_tasks /\ coord_tasks[id].status = "in_progress")
         => (sessions[id].state = <<>> /\ sessions[id].history = <<>>)
    /\ Returned(id) =>
         LET st == coord_tasks[id].status
             val == IF st = "completed" THEN coord_out[id].value
                    ELSE [error |-> coord_out[id].value.error]
         IN  /\ st \in Terminal
             /\ DOMAIN sessions[id].state = {st}
             /\ sessions[id].state[st] = val
             /\ sessions[id].history =
                  <<[action |-> "state_update", key |-> st, value |-> val]>>

\* coordinate_task has returned completed for one task and failed for
\* another.
C9_Witness ==
  \E i, j \in TaskIds :
    /\ Returned(i) /\ coord_tasks[i].status = "completed"
    /\ Returned(j) /\ coord_tasks[j].status = "failed"

\* C10: a submit stores the record of a fresh id with status pending,
\* schedules the coordination without any stage having been called, and
\* answers 200 with that id; records are never removed, and no poll of an id
\* the registry holds is answered 404.
C10_SubmitImmediate ==
  [][ /\ \A id \in TaskIds :
           /\ id \in DOMAIN active_tasks => id \in DOMAIN active_tasks'
           /\ (id \notin DOMAIN active_tasks /\ id \in DOMAIN active_tasks')
                => /\ active_tasks'[id].status = "pending"
                   /\ pc[id] = "none" /\ pc'[id] = "scheduled"
                   /\ calls'[id] = <<>> /\ rets'[id] = <<>>
                   /\ id \notin DOMAIN coord_tasks'
                   /\ IsSubmit(response')
                   /\ response'.code = 200 /\ response'.task_id = id
      /\ IsSubmit(response') => response'.code = 200
      /\ (IsPoll(response') /\ response'.code = 404)
           => response'.id \notin DOMAIN active_tasks'
    ]_vars

\* A submit has just been answered while an earlier task has failed.
C10_Witness ==
  \E id, j \in TaskIds :
    /\ IsSubmit(response) /\ response.task_id = id
    /\ pc[id] = "scheduled" /\ active_tasks[id].status = "pending"
    /\ pc[j] = "done" /\ active_tasks[j].status = "failed"

\* C11: a poll of an id the registry does not hold is answered 404 with the
\* detail "Task not found", and the step changes nothing but the answer: no
\* record is created, changed or removed.  Every poll is answered 200 or 404.
C11_UnknownPollNotFound ==
  [][ (IsPoll(response') /\ response' # response)
        => /\ response'.code \in {200, 404}
           /\ response'.id \notin DOMAIN active_tasks
                => /\ response'.code = 404
                   /\ response'.detail = "Task not found"
                   /\ "body" \notin DOMAIN response'
                   /\ active_tasks' = active_tasks
                   /\ UNCHANGED <<coord_tasks, sessions, pc, calls, rets,
                                  coord_out, reg_writes, coord_writes,
                                  memory>>
    ]_vars

\* An id that was not submitted has been polled while another task is in
\* the registry.
C11_Witness ==
  /\ IsPoll(response) /\ response.code = 404
  /\ response.id \notin DOMAIN active_tasks
  /\ DOMAIN active_tasks # {}

\* C12: the record a poll of a submitted task returns has a task_id field
\* equal to the polled id, a status field and a request field, whatever the
\* task's status.
C12_PollCarriesIdentity ==
  (IsPoll(response) /\ response.code = 200)
    => /\ {"task_id", "status", "request"} \subseteq DOMAIN response.body
       /\ response.body.task_id = response.id

StageOrder == <<"research", "writing", "analysis">>

\* C13: the stages of one task are called in the order research, writing,
\* analysis, each at most once; a stage is called only when every stage
\* called before it has returned or raised, so at most one stage call of a
\* task is in progress at any time; and the logs of calls and returns only
\* grow, one entry at a time.
C13_StagesSequential ==
  [][ \A id \in TaskIds :
        /\ Len(calls'[id]) <= 3
        /\ \A k \in 1..Len(calls'[id]) : calls'[id][k].stage = StageOrder[k]
        /\ Len(calls'[id]) - Len(rets'[id]) \in {0, 1}
        /\ Len(calls'[id]) - Len(rets'[id]) = 1
             <=> pc'[id] \in {"research", "writing", "analysis"}
        /\ pc'[id] \in {"research", "writing", "analysis"}
             => pc'[id] = StageOrder[Len(calls'[id])]
        /\ Len(calls'[id]) \in {Len(calls[id]), Len(calls[id]) + 1}
        /\ Len(rets'[id]) \in {Len(rets[id]), Len(rets[id]) + 1}
        /\ SubSeq(calls'[id], 1, Len(calls[id])) = calls[id]
        /\ SubSeq(rets'[id], 1, Len(rets[id])) = rets[id]
        /\ (Len(calls'[id]) > Len(calls[id]) /\ Len(calls[id]) >= 1)
             => (Len(rets[id]) = Len(calls[id]) - 1
                   /\ Len(rets'[id]) = Len(calls[id]))
    ]_vars

\* One task has run its three stages to the end while another is inside its
\* writing stage.
C13_Witness ==
  \E i, j \in TaskIds :
    /\ Len(calls[i]) = 3 /\ Len(rets[i]) = 3 /\ pc[i] = "done"
    /\ pc[j] = "writing" /\ Len(calls[j]) = 2 /\ Len(rets[j]) = 1

\* C14: under fair scheduling, with every stage call returning or raising,
\* from some point on every task the registry holds has the status completed
\* or failed (no task stays pending or in_progress forever); a routine ends only by coordinate_task ending (no
\* step cancels it), and a started routine never goes back to waiting.
C14_EventuallyTerminal ==
  /\ <>[](\A id \in DOMAIN active_tasks :
              active_tasks[id].status \in Terminal)
  /\ [][ \A id \in TaskIds :
           /\ (pc'[id] = "done" /\ pc[id] # "done") => coord_out'[id] # None
           /\ pc[id] \notin {"none", "scheduled"}
                => pc'[id] \notin {"none", "scheduled"}
           /\ pc[id] = "done" => pc'[id] = "done"
       ]_vars

\* Both tasks have run to the end, one completed and one failed.
C14_Witness ==
  \E i, j \in TaskIds :
    /\ pc[i] = "done" /\ active_tasks[i].status = "completed"
    /\ pc[j] = "done" /\ active_tasks[j].status = "failed"
    /\ Len(rets[j]) >= 1

\* C15: with the repository's stage agents, whatever the generation model
\* does in each stage (absent, raising, answering) and whether or not the
\* memory store takes the result, every stage call returns a result with
\* status "completed" and its payload, and a finished task is completed,
\* never failed.
C15_GenerationFailureAbsorbed ==
  \A id \in TaskIds :
    /\ \A k \in 1..Len(rets[id]) :
         /\ rets[id][k].kind = "return"
         /\ Reported(rets[id][k]) = "completed"
    /\ Len(rets[id]) >= 1 => rets[id][1].value.result.content # <<>>
    /\ Len(rets[id]) >= 2 => rets[id][2].value.content # <<>>
    /\ Len(rets[id]) >= 3 =>
         rets[id][3].value.analysis_report.analysis # <<>>
    /\ id \in DOMAIN active_tasks => active_tasks[id].status # "failed"
    /\ pc[id] = "done" =>
         /\ active_tasks[id].status = "completed"
         /\ coord_tasks[id].status = "completed"
         /\ Len(rets[id]) = 3
         /\ "error" \notin DOMAIN active_tasks[id]

\* A task is completed whose three stages all used their fallback text (the
\* research content is the fallback report, the written content quotes it,
\* the analysis is the fallback analysis), and another task is completed
\* whose stages all used the model's answer.
C15_Witness ==
  \E i, j \in TaskIds :
    /\ pc[i] = "done" /\ active_tasks[i].status = "completed"
    /\ rets[i][1].value.result.confidence_score = "0.70"
    /\ rets[i][2].value.content[2] = "article"
    /\ rets[i][3].value.analysis_report.analysis = FallbackAnalysis
    /\ pc[j] = "done" /\ active_tasks[j].status = "completed"
    /\ rets[j][1].value.result.confidence_score = "0.85"
    /\ rets[j][3].value.analysis_report.analysis \in GeneratedTexts

\* Everything the program holds for one task id.
Own(id) ==
  <<Get(active_tasks, id, None), Get(coord_tasks, id, None),
    Get(sessions, id, None), pc[id], research_result[id], writing_result[id],
    calls[id], rets[id], coord_out[id], reg_writes[id], coord_writes[id]>>

\* What task id was given and what it recorded comes from its own request
\* and its own stage calls.
OwnOutputsOnly(id) ==
  /\ Len(calls[id]) >= 1 =>
       /\ calls[id][1].args.task_id = id
       /\ calls[id][1].args.topic = active_tasks[id].request.topic
  /\ \A k \in 1..Len(rets[id]) :
       (k = 1 /\ rets[id][k].kind = "return")
         => rets[id][k].value.result.task_id = id
  /\ Len(calls[id]) >= 2 =>
       calls[id][2].args.research_content = rets[id][1].value.result.content
  /\ Len(calls[id]) >= 3 =>
       calls[id][3].args.content = rets[id][2].value.content
  /\ pc[id] = "done" =>
       /\ active_tasks[id].result = coord_out[id].value
       /\ active_tasks[id].result.task_id = id
       /\ active_tasks[id].status = coord_tasks[id].status
       /\ active_tasks[id].status = "completed"
            <=> (Len(rets[id]) = 3 /\ rets[id][3].kind = "return")
       /\ active_tasks[id].status = "failed"
            <=> Last(rets[id]).kind = "raise"
       /\ active_tasks[id].status = "completed" =>
            /\ active_tasks[id].result.research = rets[id][1].value.result
            /\ active_tasks[id].result.content = rets[id][2].value.content
            /\ active_tasks[id].result.analysis =
                 rets[id][3].value.analysis_report
            /\ sessions[id].state =
                 ("completed" :> active_tasks[id].result)
       /\ active_tasks[id].status = "failed" =>
            /\ active_tasks[id].result.error = Last(rets[id]).msg
            /\ sessions[id].state =
                 ("failed" :> [error |-> Last(rets[id]).msg])

\* C16: every step changes what the program holds for at most one task id
\* (no record, session or log of another id is created, changed or removed),
\* and what a task is given and records is its own: the content handed from
\* research to writing to analysis is what its own calls returned, and its
\* terminal status and result follow from its own stage outcomes.
C16_TasksIsolated ==
  [][ /\ \E id \in TaskIds : \A j \in TaskIds \ {id} : Own(j)' = Own(j)
      /\ DOMAIN active_tasks' \subseteq TaskIds
      /\ \A id \in TaskIds : OwnOutputsOnly(id)'
    ]_vars

\* Two tasks ran with different research contents: one failed when its
\* writing call raised, the other completed.
C16_Witness ==
  \E i, j \in TaskIds :
    /\ pc[i] = "done" /\ active_tasks[i].status = "failed"
    /\ Len(rets[i]) = 2
    /\ pc[j] = "done" /\ active_tasks[j].status = "completed"
    /\ rets[i][1].value.result.content # rets[j][1].value.result.content
    /\ Len(reg_writes[j]) = 3 /\ Len(coord_writes[i]) = 2

\* C17: the research stage of a task is called with the topic and the depth
\* of the task's request.
C17_ResearchGetsTopicAndDepth ==
  \A id \in TaskIds :
    Len(calls[id]) >= 1 =>
      /\ calls[id][1].stage = "research"
      /\ calls[id][1].args.topic = active_tasks[id].request.topic
      /\ calls[id][1].args.depth = active_tasks[id].request.depth

\* C18: the research_content given to the writing stage is the content of
\* the task's research result, the content given to the analysis stage is
\* the content the task's writing stage returned, and the content of a
\* completed result is that same writing content.
C18_ResultsPropagated ==
  \A id \in TaskIds :
    /\ Len(calls[id]) >= 2 =>
         /\ calls[id][2].stage = "writing"
         /\ calls[id][2].args.research_content =
              rets[id][1].value.result.content
    /\ Len(calls[id]) >= 3 =>
         /\ calls[id][3].stage = "analysis"
         /\ calls[id][3].args.content = rets[id][2].value.content
    /\ (pc[id] = "done" /\ active_tasks[id].status = "completed") =>
         /\ active_tasks[id].result.content = rets[id][2].value.content
         /\ active_tasks[id].result.content = calls[id][3].args.content
         /\ active_tasks[id].result.research.content =
              calls[id][2].args.research_content

\* A completed task: both hand-overs and the final result have happened.
C18_Witness ==
  \E id \in TaskIds :
    /\ pc[id] = "done" /\ active_tasks[id].status = "completed"
    /\ Len(calls[id]) = 3
    /\ calls[id][2].args.research_content \in ResearchContents
    /\ calls[id][3].args.content \in WritingContents

IsList(r) == Get(r, "endpoint", "none") = "list"

\* The ids submitted so far.
Submitted == {id \in TaskIds : reg_writes[id] # <<>>}

\* C19: a listing holds exactly one summary for every task submitted so far
\* and nothing else, total_tasks is the number of summaries, and every
\* summary shows the task's current status (and its topic, creation time
\* and content type); tasks are never removed from the registry, so
\* total_tasks never is smaller than in an earlier listing.
C19_ListComplete ==
  [][ /\ DOMAIN active_tasks \subseteq DOMAIN active_tasks'
      /\ DOMAIN active_tasks' = Submitted'
      /\ IsList(response') =>
           /\ response'.total_tasks = Len(response'.tasks)
           /\ response'.total_tasks <= Cardinality(DOMAIN active_tasks')
           /\ IsList(response) =>
                response'.total_tasks >= response.total_tasks
      /\ (IsList(response') /\ response' # response) =>
           LET tasks == response'.tasks
           IN  /\ {tasks[k].task_id : k \in 1..Len(tasks)} = Submitted
               /\ Len(tasks) = Cardinality(Submitted)
               /\ \A k \in 1..Len(tasks) :
                    LET rec == active_tasks[tasks[k].task_id]
                    IN  /\ tasks[k].status = rec.status
                        /\ tasks[k].topic = rec.request.topic
                        /\ tasks[k].created_at = rec.created_at
                        /\ tasks[k].content_type = rec.request.content_type
                        /\ DOMAIN tasks[k] =
                             {"task_id", "topic", "status", "created_at",
                              "content_type"}
    ]_vars

\* A listing of two tasks, one completed and one in progress.
C19_Witness ==
  /\ IsList(response) /\ response.total_tasks = 2
  /\ \E k, l \in 1..Len(response.tasks) :
       /\ response.tasks[k].status = "completed"
       /\ response.tasks[l].status = "in_progress"

CountOf(seq, x) == Cardinality({k \in 1..Len(seq) : seq[k] = x})

\* C20: a submit takes an id that was never used and schedules one
\* coordination for it; a scheduled coordination starts once and a started
\* one is never scheduled or started again, so coordinate_task enters at
\* most once per id: one in_progress write of the boundary, at most one of
\* the coordinator, at most one research call, at most one session.
C20_OneCoordinationPerId ==
  [][ \A id \in TaskIds :
        /\ (pc'[id] = "scheduled" /\ pc[id] # "scheduled")
             => /\ pc[id] = "none"
                /\ id \notin DOMAIN active_tasks
                /\ IsSubmit(response') /\ response'.task_id = id
        /\ pc[id] = "scheduled"
             => pc'[id] \in {"scheduled", "research", "done"}
        /\ pc[id] \notin {"none", "scheduled"}
             => pc'[id] \notin {"none", "scheduled"}
        /\ (IsSubmit(response') /\ response' # response)
             => response'.task_id \notin DOMAIN active_tasks
        /\ CountOf(reg_writes'[id], "in_progress") <= 1
        /\ CountOf(reg_writes'[id], "pending") <= 1
        /\ CountOf(coord_writes'[id], "in_progress") <= 1
        /\ CountOf(reg_writes'[id], "in_progress") = 1
             <=> pc'[id] \notin {"none", "scheduled"}
        /\ Len(calls'[id]) >= 1 =>
             CountOf([k \in 1..Len(calls'[id]) |-> calls'[id][k].stage],
                     "research") = 1
    ]_vars

\* Two submits were answered with different ids and both coordinations have
\* run to their end.
C20_Witness ==
  \E i, j \in TaskIds :
    /\ i # j
    /\ \A id \in {i, j} :
         /\ pc[id] = "done" /\ coord_out[id] # None
         /\ Len(calls[id]) >= 1
         /\ CountOf(reg_writes[id], "in_progress") = 1
         /\ CountOf(coord_writes[id], "in_progress") = 1

\* C21: while the routine of one task is inside a stage's external call,
\* the generation call included, a poll can be answered and every other
\* routine that is ready to run can take its step.
C21_NoStageBlocks ==
  \A id \in TaskIds :
    (in_generate = id \/ pc[id] \in Agents) =>
      /\ \A j \in TaskIds : ENABLED LoopPoll(j)
      /\ \A j \in TaskIds \ {id} :
           /\ pc[j] = "scheduled" => ENABLED LoopStart(j)
           /\ pc[j] \in Agents => ENABLED EnterGenerate(j)

\* A return value of the named tool or memory-bank operation.
IsCall(r, op) == "op" \in DOMAIN r /\ r.op = op

\* C22: analyze_sentiment labels a text with at least one lexicon word
\* "positive" exactly when positive / (positive + negative) > 0.6, "negative"
\* exactly when it is < 0.4 and "neutral" otherwise; a text with no lexicon
\* word is "neutral" with score 0.5; and the reported score agrees with the
\* label: "positive" comes with a score > 0.6, "negative" with one < 0.4.
C22_SentimentByRatio ==
  IsCall(response, "analyze_sentiment") =>
    LET r == response.result
        p == CountIn(response.text, PositiveWords)
        t == p + CountIn(response.text, NegativeWords)
    IN  /\ t > 0 => /\ r.sentiment = "positive" <=> 10 * p > 6 * t
                    /\ r.sentiment = "negative" <=> 10 * p < 4 * t
                    /\ r.sentiment \in {"positive", "negative", "neutral"}
        /\ t = 0 => r.sentiment = "neutral" /\ r.score = 50
        /\ r.sentiment = "positive" => r.score > 60
        /\ r.sentiment = "negative" => r.score < 40

\* C23: calculate_readability returns 0.0 for a text with no words and
\* otherwise a score within [0, 1] with two decimals; it never raises a
\* division by zero; and of two texts with the same numbers of words and of
\* sentences, the one with more words longer than 6 characters does not
\* score higher.
C23_ReadabilityBounded ==
  IsCall(response, "calculate_readability") =>
    LET text == response.text
        r == response.result
    IN  /\ r.kind = "return"
        /\ r.value \in 0..100
        /\ Len(text) = 0 => r.value = 0
        /\ \A other \in [1..Len(text) -> ReadWords] :
             (/\ Sentences(other) = Sentences(text)
              /\ ComplexWords(other) > ComplexWords(text))
               => CalculateReadability(other).value <= r.value

\* A text of four words, one of them long, scored strictly between 0 and 1
\* and strictly above a text of the same shape with two long words.
C23_Witness ==
  /\ IsCall(response, "calculate_readability")
  /\ Len(response.text) = 4
  /\ ComplexWords(response.text) = 1
  /\ response.result.kind = "return"
  /\ response.result.value \in 1..99
  /\ \E other \in [1..4 -> ReadWords] :
       /\ Sentences(other) = Sentences(response.text)
       /\ ComplexWords(other) = 2
       /\ CalculateReadability(other).value < response.result.value

\* C24: a retrieve_memory(key) that directly follows store_memory(key, value)
\* on the same bank returns an envelope whose data is the stored value (so
\* after two stores to a key, the later one's), and a retrieve of a key that
\* was never stored returns None.
C24_StoreThenRetrieve ==
  [][ IsCall(response', "retrieve_memory") =>
        /\ (IsCall(response, "store_memory") /\ response.key = response'.key)
             => /\ response'.result # None
                /\ response'.result.data = response.data
        /\ response'.key \notin bank.stored_keys => response'.result = None
    ]_vars

\* C25: the sources of a Research result are, in the order of the search
\* results, exactly the url values of the entries that have a url field:
\* the sources correspond one to one, order kept, to those entries, so an
\* entry without url adds nothing and a repeated url is listed each time.
C25_SourcesAreUrls ==
  (IsCall(response, "execute_research") /\ response.result.kind = "return")
    => LET entries == response.search_results
           sources == response.result.value.result.sources
           withUrl == {k \in 1..Len(entries) : "url" \in DOMAIN entries[k]}
       IN  \E f \in [1..Len(sources) -> 1..Len(entries)] :
             /\ {f[i] : i \in 1..Len(sources)} = withUrl
             /\ \A i, j \in 1..Len(sources) : i < j => f[i] < f[j]
             /\ \A i \in 1..Len(sources) : sources[i] = entries[f[i]].url

\* A result built from four entries: one url twice, an entry without url
\* between them, then another url; three sources are listed.
C25_Witness ==
  /\ IsCall(response, "execute_research")
  /\ response.result.kind = "return"
  /\ Len(response.search_results) = 4
  /\ "url" \notin DOMAIN response.search_results[2]
  /\ "url" \in DOMAIN response.search_results[1]
  /\ "url" \in DOMAIN response.search_results[3]
  /\ "url" \in DOMAIN response.search_results[4]
  /\ response.search_results[1].url = response.search_results[3].url
  /\ response.search_results[4].url # response.search_results[1].url
  /\ Len(response.result.value.result.sources) = 3

\* C26: once the coordinator's record of a task is completed or failed, no
\* step of the coordinator (a task_update message, a further coordinate_task
\* for the id, or any other) changes the record's status.
C26_TerminalRecordKept ==
  [][ \A id \in DOMAIN coord_tasks :
        Get(coord_tasks[id], "status", "None") \in Terminal
          => /\ id \in DOMAIN coord_tasks'
             /\ Get(coord_tasks'[id], "status", "None") = coord_tasks[id].status
    ]_vars

\* C27: when coordinate_task raises (in create_session, before its try
\* block, or in update_state inside its failure handler), the boundary
\* routine ends all the same: the registry record is failed, its error is
\* the exception's text, completed_at is set, and the coordinator's record
\* of the id, if there is one, has the same status.
C27_RaiseRecordedFailed ==
  \A id \in TaskIds :
    (coord_out[id] # None /\ coord_out[id].kind = "raise")
      => /\ pc[id] = "done"
         /\ id \in DOMAIN active_tasks
         /\ active_tasks[id].status = "failed"
         /\ "error" \in DOMAIN active_tasks[id]
         /\ active_tasks[id].error = coord_out[id].msg
         /\ "completed_at" \in DOMAIN active_tasks[id]
         /\ id \in DOMAIN coord_tasks
              => coord_tasks[id].status = active_tasks[id].status

\* coordinate_task raised for both tasks: for one in create_session, so the
\* coordinator has no record of it, for the other in the failure handler
\* after a stage had failed, so the coordinator's record is failed.
C27_Witness ==
  \E a, b \in TaskIds :
    /\ coord_out[a] # None /\ coord_out[a].kind = "raise"
    /\ a \notin DOMAIN coord_tasks
    /\ Len(calls[a]) = 0
    /\ coord_out[b] # None /\ coord_out[b].kind = "raise"
    /\ b \in DOMAIN coord_tasks
    /\ Len(rets[b]) > 0
    /\ active_tasks[a].status = "failed"
    /\ active_tasks[b].status = "failed"

\* C28: the session count that GET /status and GET /sessions/stats report
\* is the number of sessions the coordinator holds (those it created; it
\* ends none): after coordinate_task has created the sessions of n distinct
\* task ids, n is reported.
C28_SessionCountReported ==
  [][ /\ Status => response'.active_sessions = Cardinality(DOMAIN sessions)
      /\ SessionStats
           => response'.total_sessions = Cardinality(DOMAIN sessions)
    ]_vars

\* C29: a coordinate_task call without a task_id works under an id that no
\* record of the coordinator has yet, so it replaces neither the record nor
\* the session of an earlier task.
C29_GeneratedIdFresh ==
  (IsCall(direct.answer, "coordinate_task") /\ direct.answer.generated)
    => direct.answer.task_id \notin direct.answer.known

\* C30: what get_system_metrics returns fits the coordinator's records:
\* total_tasks is their number, completed_tasks + failed_tasks is at most
\* total_tasks, success_rate is completed_tasks / total_tasks (0 with no
\* task) and within [0, 1], and when every coordinate_task that was started
\* has ended, completed_tasks + failed_tasks equals total_tasks.
C30_MetricsConsistent ==
  [][ SystemMetrics =>
        LET m == direct'.answer.result
        IN  /\ m.total_tasks = Cardinality(DOMAIN coord_tasks)
            /\ m.completed_tasks + m.failed_tasks <= m.total_tasks
            /\ m.success_rate.num = m.completed_tasks
            /\ m.success_rate.den = Max(m.total_tasks, 1)
            /\ m.success_rate.num <= m.success_rate.den
            /\ (\A k \in 1..Len(direct.routines) :
                  direct.routines[k].pc = "done")
                 => m.completed_tasks + m.failed_tasks = m.total_tasks
    ]_vars
=============================================================================
